---- MODULE Spec2Model ----
(***************************************************************************)
(* A model of umemofi: the reference/data containers of data.py, their     *)
(* model registries, and the Deblender / Fitter entry points of            *)
(* algorithms.py.                                                          *)
(*                                                                         *)
(* Python objects that can be aliased (dict objects) live in `heap`, a     *)
(* sequence indexed by address; a variable or attribute that refers to a   *)
(* dict holds its address.  Entries of the mappings (ObsRef, ObsData,      *)
(* ObjectData objects) are opaque identities 1..NEntries.                  *)
(***************************************************************************)
EXTENDS Integers, Sequences, FiniteSets, TLC

\* ------------------------------------------------------------------ bounds

\* Number of distinct entry objects a caller can put in a mapping.
NEntries == 2
\* Longest sequence of model attachments that is followed.
MaxWrites == 3
\* Largest value of the one pixel of an image buffer.
MaxPix == 1

ObjectIds == {"A", "B"}
ExposureIds == {"E1", "E2"}
AlgNames == {"shape", "flux"}
ModelIds == {"m1", "m2"}
Entries == 1..NEntries

None == "None"
NotImplementedError == "NotImplementedError"
KeyError == "KeyError"

VARIABLES
    heap,       \* the dict objects, by address
    kind,       \* key type of the caller's mapping
    caller,     \* address of the mapping the caller holds and passes in
    container,  \* the container object constructed from it
    outcome,    \* the last operation and how it ended
    models,     \* the model registry of each entity, None before construction
    writes,     \* the attachments made so far, oldest first
    obs_data    \* the ObsData objects of the stack, None before construction

vars == <<heap, kind, caller, container, outcome, models, writes, obs_data>>

\* ------------------------------------------------------- Python dict objects

\* d[k] = v
DictSetItem(d, k, v) == [x \in DOMAIN d \cup {k} |-> IF x = k THEN v ELSE d[x]]

\* del d[k]: the dict without k, or KeyError and the dict as it was when k
\* is not a key of it.
DictDelItem(d, k) ==
    IF k \in DOMAIN d
    THEN [dict |-> [x \in DOMAIN d \ {k} |-> d[x]], raised |-> None]
    ELSE [dict |-> d, raised |-> KeyError]

\* Every dict with keys among K and values among V.
Dicts(K, V) == UNION {[S -> V] : S \in SUBSET K}

\* A faulty variant of dict_copy: the container keeps the caller's own dict object.
dict_alias(h, src) == [heap |-> h, addr |-> src]

\* dict(src): a new dict object with the items of the dict at address src.
dict_copy(h, src) == [heap |-> Append(h, h[src]), addr |-> Len(h) + 1]

\* dict(): a new, empty dict object.
dict_new(h) == [heap |-> Append(h, <<>>), addr |-> Len(h) + 1]

\* ------------------------------------------------------------ the containers

\* The key types of the mappings the containers hold: object_id (ObsRef,
\* BlendData, BlendObsRef, BlendObsData), exposure_id (ObsRefStack,
\* ObsDataStack), (object_id, exposure_id) (BlendObsRefStack,
\* BlendObsDataStack).
Kinds == {"object_id", "exposure_id", "object_exposure"}

KeysOfKind(kd) ==
    CASE kd = "object_id" -> ObjectIds
      [] kd = "exposure_id" -> ExposureIds
      [] kd = "object_exposure" -> ObjectIds \X ExposureIds

\* Before any constructor has run.  Address 0 stands for None.
NoContainer == [cls |-> None, object_id |-> None, mapping |-> 0]

\* How a call ended: the operation, the mapping it was given (0 when none),
\* the exception it raised and the value it returned.
Done(op, arg) == [op |-> op, arg |-> arg, raised |-> None, ret |-> None]
Raised(op, exc) == [op |-> op, arg |-> 0, raised |-> exc, ret |-> None]

\* The items of the container's mapping.
Contents == heap[container.mapping]

\* ------------------------------------------------- the caller's own mapping

\* The caller stores an entry in the mapping it passed (or will pass) in.
CallerSetItem(k, v) ==
    /\ heap' = [heap EXCEPT ![caller] = DictSetItem(@, k, v)]
    /\ outcome' = Done("CallerSetItem", 0)
    /\ UNCHANGED <<kind, caller, container, models, writes, obs_data>>

\* The caller deletes a key of the mapping it passed (or will pass) in;
\* KeyError when the mapping does not have the key.
CallerDelItem(k) ==
    /\ LET r == DictDelItem(heap[caller], k)
       IN /\ heap' = [heap EXCEPT ![caller] = r.dict]
          /\ outcome' = IF r.raised = None
                        THEN Done("CallerDelItem", 0)
                        ELSE Raised("CallerDelItem", r.raised)
    /\ UNCHANGED <<kind, caller, container, models, writes, obs_data>>

\* --------------------------------------------------------------- data.py

\* self.<mapping> = dict(<argument>), the statement every container
\* constructor but ObsRef's runs on the mapping it is given.
Construct(cls, arg) ==
    /\ container = NoContainer
    /\ LET c == dict_copy(heap, arg)
       IN /\ heap' = c.heap
          /\ container' = [cls |-> cls, object_id |-> None, mapping |-> c.addr]
    /\ outcome' = Done(cls, arg)
    /\ UNCHANGED <<kind, caller, writes, obs_data>>

\* ObjectData.__init__: self._models = dict()
ObjectData__init__ ==
    /\ "ObjectData" \notin DOMAIN models
    /\ models' = DictSetItem(models, "ObjectData", <<>>)
    /\ outcome' = Done("ObjectData", 0)
    /\ UNCHANGED <<heap, kind, caller, container, writes, obs_data>>

\* PSF.__init__: self.models = {}
PSF__init__ ==
    /\ "PSF" \notin DOMAIN models
    /\ models' = DictSetItem(models, "PSF", <<>>)
    /\ outcome' = Done("PSF", 0)
    /\ UNCHANGED <<heap, kind, caller, container, writes, obs_data>>

\* BlendData.__init__: self._object_data = dict(object_data)
BlendData__init__ ==
    /\ kind = "object_id"
    /\ Construct("BlendData", caller)
    /\ UNCHANGED models

\* ObsRef.__init__: self.neighbors = dict(neighbors) if neighbors is not None
\* else dict(); self._models = dict().  object_id is object_data.object_id;
\* neighbors is the address of the mapping passed, 0 for None.
ObsRef__init__(object_id, neighbors) ==
    /\ kind = "object_id"
    /\ container = NoContainer
    /\ LET c == IF neighbors # 0 THEN dict_copy(heap, neighbors) ELSE dict_new(heap)
       IN /\ heap' = c.heap
          /\ container' = [cls |-> "ObsRef", object_id |-> object_id,
                           mapping |-> c.addr]
    /\ models' = DictSetItem(models, "ObsRef", <<>>)
    /\ outcome' = Done("ObsRef", neighbors)
    /\ UNCHANGED <<kind, caller, writes, obs_data>>

\* ObsData.__init__: self.image = image; self.mask = mask;
\* self.weight = weight; self.ref = ref.  One ObsData per ObsRef is kept.
ObsData__init__(image, mask, weight, ref) ==
    /\ ref \notin DOMAIN obs_data
    /\ obs_data' = DictSetItem(obs_data, ref,
                               [image |-> image, mask |-> mask, weight |-> weight])
    /\ outcome' = Done("ObsData", 0)
    /\ UNCHANGED <<heap, kind, caller, container, models, writes>>

\* BlendObsRef.__init__: self._obs_refs = dict(obs_refs)
BlendObsRef__init__ ==
    /\ kind = "object_id"
    /\ Construct("BlendObsRef", caller)
    /\ UNCHANGED models

\* BlendObsData.__init__: self._obs_data = dict(obs_data)
BlendObsData__init__ ==
    /\ kind = "object_id"
    /\ Construct("BlendObsData", caller)
    /\ UNCHANGED models

\* ObsRefStack.__init__: self._obs_refs = dict(obs_refs)
ObsRefStack__init__ ==
    /\ kind = "exposure_id"
    /\ Construct("ObsRefStack", caller)
    /\ UNCHANGED models

\* ObsDataStack.__init__: self._obs_data = dict(obs_data)
ObsDataStack__init__ ==
    /\ kind = "exposure_id"
    /\ Construct("ObsDataStack", caller)
    /\ UNCHANGED models

\* BlendObsRefStack.__init__: self._obs_refs = dict(obs_refs)
BlendObsRefStack__init__ ==
    /\ kind = "object_exposure"
    /\ Construct("BlendObsRefStack", caller)
    /\ UNCHANGED models

\* BlendObsDataStack.__init__: self._obs_data = dict(obs_data)
BlendObsDataStack__init__ ==
    /\ kind = "object_exposure"
    /\ Construct("BlendObsDataStack", caller)
    /\ UNCHANGED models

\* An update in place of the container's mapping (for an ObsRef, of the
\* public neighbors dict): mapping[k] = v.
ContainerSetItem(k, v) ==
    /\ container # NoContainer
    /\ heap' = [heap EXCEPT ![container.mapping] = DictSetItem(@, k, v)]
    /\ outcome' = Done("ContainerSetItem", 0)
    /\ UNCHANGED <<kind, caller, container, models, writes, obs_data>>

\* An update in place of the container's mapping: del mapping[k]; KeyError
\* when the mapping does not have the key.
ContainerDelItem(k) ==
    /\ container # NoContainer
    /\ LET r == DictDelItem(Contents, k)
       IN /\ heap' = [heap EXCEPT ![container.mapping] = r.dict]
          /\ outcome' = IF r.raised = None
                        THEN Done("ContainerDelItem", 0)
                        ELSE Raised("ContainerDelItem", r.raised)
    /\ UNCHANGED <<kind, caller, container, models, writes, obs_data>>

\* A faulty variant of registry_write: an identifier that has an entry keeps it.
registry_setdefault(d, alg, m) == IF alg \in DOMAIN d THEN d ELSE DictSetItem(d, alg, m)

\* A registry is a plain dict "to be updated in-place": registry[alg] = m.
registry_write(d, alg, m) == DictSetItem(d, alg, m)

\* An algorithm attaches Model m under identifier alg to entity e.  `writes`
\* records the attachment; nothing but the claims reads it.
AttachModel(e, alg, m) ==
    /\ e \in DOMAIN models
    /\ Len(writes) < MaxWrites
    /\ models' = [models EXCEPT ![e] = registry_write(@, alg, m)]
    /\ writes' = Append(writes, <<e, alg, m>>)
    /\ outcome' = Done("AttachModel", 0)
    /\ UNCHANGED <<heap, kind, caller, container, obs_data>>

\* A method whose body is `raise NotImplementedError()`.
Unimplemented(op) ==
    /\ outcome' = Raised(op, NotImplementedError)
    /\ UNCHANGED <<heap, kind, caller, container, models, writes, obs_data>>

\* ObsRef.load(image=None, mask=None, weight=None)
ObsRef_load ==
    /\ container.cls = "ObsRef"
    /\ Unimplemented("ObsRef.load")

\* BlendObsRef.load()
BlendObsRef_load ==
    /\ container.cls = "BlendObsRef"
    /\ Unimplemented("BlendObsRef.load")

\* ObsRefStack.load()
ObsRefStack_load ==
    /\ container.cls = "ObsRefStack"
    /\ Unimplemented("ObsRefStack.load")

\* BlendObsRefStack.by_exposure
BlendObsRefStack_by_exposure ==
    /\ container.cls = "BlendObsRefStack"
    /\ Unimplemented("by_exposure")

\* BlendObsRefStack.by_object
BlendObsRefStack_by_object ==
    /\ container.cls = "BlendObsRefStack"
    /\ Unimplemented("by_object")

\* BlendObsRefStack.load()
BlendObsRefStack_load ==
    /\ container.cls = "BlendObsRefStack"
    /\ Unimplemented("BlendObsRefStack.load")

\* BlendObsDataStack.by_exposure
BlendObsDataStack_by_exposure ==
    /\ container.cls = "BlendObsDataStack"
    /\ Unimplemented("by_exposure")

\* BlendObsDataStack.by_object
BlendObsDataStack_by_object ==
    /\ container.cls = "BlendObsDataStack"
    /\ Unimplemented("by_object")

\* ----------------------------------------------------------- algorithms.py

\* Deblender.processStack(blend_obs_ref_stack)
Deblender_processStack ==
    /\ container.cls = "BlendObsRefStack"
    /\ Unimplemented("Deblender.processStack")

\* SingleExposureDeblender.processStack(data)
SingleExposureDeblender_processStack ==
    /\ container.cls = "BlendObsRefStack"
    /\ Unimplemented("SingleExposureDeblender.processStack")

\* SingleExposureDeblender.processExposure(blend_obs_ref)
SingleExposureDeblender_processExposure ==
    /\ container.cls = "BlendObsRef"
    /\ Unimplemented("SingleExposureDeblender.processExposure")

\* A faulty variant of Fitter_processBlend: a fitter that zeroes the weight of the
\* pixels it does not want, before it gives up.
Fitter_processBlend_zeroes_weight ==
    /\ container.cls = "BlendObsRefStack"
    /\ outcome' = Raised("Fitter.processBlend", NotImplementedError)
    /\ obs_data' = [r \in DOMAIN obs_data |-> [obs_data[r] EXCEPT !.weight = 0]]
    /\ UNCHANGED <<heap, kind, caller, container, models, writes>>

\* Fitter.processBlend(blend_obs_ref_stack)
Fitter_processBlend ==
    /\ container.cls = "BlendObsRefStack"
    /\ Unimplemented("Fitter.processBlend")

\* SingleObjectFitter.processBlend(blend_obs_ref_stack)
SingleObjectFitter_processBlend ==
    /\ container.cls = "BlendObsRefStack"
    /\ Unimplemented("SingleObjectFitter.processBlend")

\* SingleObjectFitter.processObject(obs_ref_stack)
SingleObjectFitter_processObject ==
    /\ container.cls = "ObsRefStack"
    /\ Unimplemented("SingleObjectFitter.processObject")

\* ------------------------------------------------------ the specifications

\* The containers: a caller holding any mapping of one key type constructs a
\* container from it, and both go on being updated and used.
Init ==
    /\ kind \in Kinds
    /\ heap \in {<<d>> : d \in Dicts(KeysOfKind(kind), Entries)}
    /\ caller = 1
    /\ container = NoContainer
    /\ outcome = Done("start", 0)
    /\ models = <<>>
    /\ writes = <<>>
    /\ obs_data = <<>>

Next ==
    \/ \E k \in KeysOfKind(kind), v \in Entries : CallerSetItem(k, v)
    \/ \E k \in KeysOfKind(kind) : CallerDelItem(k)
    \/ BlendData__init__
    \/ \E o \in ObjectIds, n \in {0, caller} : ObsRef__init__(o, n)
    \/ BlendObsRef__init__
    \/ BlendObsData__init__
    \/ ObsRefStack__init__
    \/ ObsDataStack__init__
    \/ BlendObsRefStack__init__
    \/ BlendObsDataStack__init__
    \/ \E k \in KeysOfKind(kind), v \in Entries : ContainerSetItem(k, v)
    \/ \E k \in KeysOfKind(kind) : ContainerDelItem(k)
    \/ ObsRef_load
    \/ BlendObsRef_load
    \/ ObsRefStack_load
    \/ BlendObsRefStack_by_exposure
    \/ BlendObsRefStack_by_object
    \/ BlendObsRefStack_load
    \/ BlendObsDataStack_by_exposure
    \/ BlendObsDataStack_by_object
    \/ Deblender_processStack
    \/ SingleExposureDeblender_processStack
    \/ SingleExposureDeblender_processExposure

Spec == Init /\ [][Next]_vars

\* The registries: the three kinds of entity that hold one are constructed,
\* and algorithms attach Models to them.
InitRegistry ==
    /\ Init
    /\ kind = "object_id"
    /\ heap[1] = <<>>

NextRegistry ==
    \/ ObjectData__init__
    \/ \E o \in ObjectIds, n \in {0, caller} : ObsRef__init__(o, n)
    \/ PSF__init__
    \/ \E e \in {"ObjectData", "ObsRef", "PSF"}, alg \in AlgNames, m \in ModelIds :
           AttachModel(e, alg, m)

SpecRegistry == InitRegistry /\ [][NextRegistry]_vars

\* The fitters: a stack is constructed from a mapping that has every key, the
\* ObsData of its ObsRefs are constructed, and the fitters are called on it.
InitFitter ==
    /\ Init
    /\ kind \in {"exposure_id", "object_exposure"}
    /\ DOMAIN heap[1] = KeysOfKind(kind)

NextFitter ==
    \/ ObsRefStack__init__
    \/ BlendObsRefStack__init__
    \/ \E image \in 0..MaxPix, mask \in {0, 1}, weight \in {0, 1}, ref \in Entries :
           ObsData__init__(image, mask, weight, ref)
    \/ Fitter_processBlend
    \/ SingleObjectFitter_processBlend
    \/ SingleObjectFitter_processObject

SpecFitter == InitFitter /\ [][NextFitter]_vars

\* ------------------------------------------------------------- the claims

\* Re-flattening a by_exposure view {exposure_id: {object_id: entry}}.
FlattenByExposure(view) ==
    [p \in UNION {{<<o, e>> : o \in DOMAIN view[e]} : e \in DOMAIN view}
        |-> view[p[2]][p[1]]]

\* Re-flattening a by_object view {object_id: {exposure_id: entry}}.
FlattenByObject(view) ==
    [p \in UNION {{<<o, e>> : e \in DOMAIN view[o]} : o \in DOMAIN view}
        |-> view[p[1]][p[2]]]

\* C1: accessing by_exposure or by_object of a blend stack succeeds, and
\* re-flattening the view it returns gives exactly the stack's flat mapping
\* (same keys, same entries).
C1_ViewsLossless ==
    outcome.op \in {"by_exposure", "by_object"} =>
        /\ outcome.raised = None
        /\ Contents = IF outcome.op = "by_exposure"
                      THEN FlattenByExposure(outcome.ret)
                      ELSE FlattenByObject(outcome.ret)

\* C2: SingleExposureDeblender.processStack on a BlendObsRefStack returns a
\* BlendObsDataStack, assembled from the per-exposure results, with exactly
\* the (object_id, exposure_id) key set of the input stack.
C2_ProcessStackKeepsKeys ==
    outcome.op = "SingleExposureDeblender.processStack" =>
        /\ outcome.raised = None
        /\ DOMAIN outcome.ret = DOMAIN Contents

\* C4: a call of Fitter.processBlend, SingleObjectFitter.processBlend or
\* SingleObjectFitter.processObject leaves the image, mask and weight of
\* every ObsData as they were.
C4_FitterStep ==
    outcome'.op \in {"Fitter.processBlend", "SingleObjectFitter.processBlend",
                     "SingleObjectFitter.processObject"} =>
        obs_data' = obs_data

C4_FitterLeavesPixels == [][C4_FitterStep]_vars

\* C4 witness: a fitter has been called on a stack one of whose ObsRefs has
\* an ObsData with a lit image pixel, a set mask bit and a weight.
C4_Witness ==
    /\ outcome.op = "SingleObjectFitter.processBlend"
    /\ \E k \in DOMAIN Contents :
           /\ Contents[k] \in DOMAIN obs_data
           /\ obs_data[Contents[k]] = [image |-> MaxPix, mask |-> 1, weight |-> 1]

\* The positions in `writes` of the attachments to entity e under alg.
WritesTo(e, alg) ==
    {i \in 1..Len(writes) : writes[i][1] = e /\ writes[i][2] = alg}

Last(S) == CHOOSE i \in S : \A j \in S : j <= i

\* C5: after any sequence of attachments, the registry of every entity holds
\* an entry under an identifier exactly when something was written under it,
\* and the entry is the last Model written under it, whatever was written
\* under other identifiers or to other entities in between.
C5_LastWriteWins ==
    \A e \in DOMAIN models : \A alg \in AlgNames :
        IF WritesTo(e, alg) = {}
        THEN alg \notin DOMAIN models[e]
        ELSE /\ alg \in DOMAIN models[e]
             /\ models[e][alg] = writes[Last(WritesTo(e, alg))][3]

\* C5 witness: "shape" was written twice, with two Models, to an entity that
\* also holds another identifier.
C5_Witness ==
    \E e \in DOMAIN models :
        /\ \E i, j \in WritesTo(e, "shape") : i < j /\ writes[i][3] # writes[j][3]
        /\ "flux" \in DOMAIN models[e]

\* C8: the neighbors map of an ObsRef never contains the ObsRef's own
\* object id.
C8_NoSelfNeighbor ==
    container.cls = "ObsRef" => container.object_id \notin DOMAIN Contents

\* C10: a constructor leaves the container with a dict of its own holding
\* the items of the mapping it was given (the same keys, the same entry
\* objects) and leaves the caller's mapping alone; afterwards an update of
\* the caller's mapping does not change the container's, and an update of
\* the container's does not change the caller's.
C10_ConstructorStep ==
    (container = NoContainer /\ container' # NoContainer) =>
        /\ IF outcome'.arg = 0
           THEN DOMAIN Contents' = {}
           ELSE Contents' = heap[outcome'.arg]
        /\ heap'[caller] = heap[caller]

C10_CallerStep ==
    (container # NoContainer /\ outcome'.op \in {"CallerSetItem", "CallerDelItem"}) =>
        Contents' = Contents

C10_ContainerStep ==
    outcome'.op \in {"ContainerSetItem", "ContainerDelItem"} =>
        heap'[caller] = heap[caller]

C10_OwnCopy ==
    [][C10_ConstructorStep /\ C10_CallerStep /\ C10_ContainerStep]_vars

\* C10 witness: after a BlendObsRefStack was constructed from a mapping with
\* entries, the caller has replaced or added a key, and the two mappings
\* differ.
C10_Witness ==
    /\ container.cls = "BlendObsRefStack"
    /\ outcome.op = "CallerSetItem"
    /\ \E k \in DOMAIN Contents :
           k \in DOMAIN heap[caller] /\ heap[caller][k] # Contents[k]
    /\ \E k \in DOMAIN heap[caller] : k \notin DOMAIN Contents

====
